---- MODULE Spec2Model ----
(***************************************************************************)
(* Aurion / Project Maya.                                                  *)
(*                                                                         *)
(* Settings component (React): local state, the saveChanges handler with   *)
(* its 500 ms timer, the load effect and the apply/persist effect, and the *)
(* app_settings item of localStorage they share.                           *)
(***************************************************************************)
EXTENDS Integers, Sequences, FiniteSets, TLC

(***************************************************************************)
(* Bounds of the model.                                                    *)
(***************************************************************************)
\* user actions in one run: opening Settings, changing a field, pressing Save
MaxActions == 4
\* web searches in one run
MaxSearches == 2
\* steps of the clock in one run, each of half the cache TTL
MaxTicks == 2

VARIABLES
    phase,        \* "unmounted" | "loading" | "idle" | "crashed"
    st,           \* the useState cells of the rendered component
    queued,       \* state updates queued by the load effect, not yet rendered
    item,         \* localStorage item 'app_settings'
    saving,       \* useState saving
    savedMsg,     \* useState savedMsg
    toast,        \* useState toast
    pending,      \* saveChanges calls waiting on their 500 ms timer, oldest first
    toastTimers,  \* 2200 ms timers that clear the toast, oldest first
    gen,          \* number of the mounted instance
    acts,         \* user actions so far
    fresh,        \* no user action and no save since the last mount
    lastChange,   \* per preference: the value of the user's latest change
    atMount,      \* app_settings as it was when the component last mounted
    lastSave,     \* how the latest saveChanges call ended: "none" | "ok" | "threw"
    \* real-time web search (backend service)
    now,          \* seconds since the service started
    config,       \* which provider keys are set in .env
    cache,        \* Redis: cache key -> entry
    sPhase,       \* "idle" | "serpapi" | "google" | "scrape" | "done"
    query,        \* the query of the search in progress
    tried,        \* the providers called by this search, in order, with outcome
    found,        \* the result list this search got, or NoResults
    result,       \* what the search returned; NoResults until then
    tasks,        \* scrape task per selected URL: "waiting" | "running" | "ok" | "timeout"
    searches,     \* searches started so far
    \* Help component
    openPanels,   \* useState openPanels: section key -> boolean
    openFaq       \* useState openFaq: FAQ index -> boolean

settingsVars == <<phase, st, queued, item, saving, savedMsg, toast, pending,
                  toastTimers, gen, acts, fresh, lastChange, atMount, lastSave>>

searchVars == <<now, config, cache, sPhase, query, tried, found, result, tasks,
                searches>>

helpVars == <<openPanels, openFaq>>

vars == <<settingsVars, searchVars, helpVars>>

(***************************************************************************)
(* Values.                                                                 *)
(***************************************************************************)
PrefKeys == {"theme", "fontSize", "language"}
PersonalKeys == {"customizationEnabled", "personality", "customInstructions", "about"}
\* the dependency list of the apply/persist effect
PersistKeys == PrefKeys \cup PersonalKeys
StateKeys == PersistKeys \cup {"profile", "avatarPreview", "notifications", "apiKeys"}

Null == "null"
NoChange == "-"

\* useState initial values
Defaults ==
    [theme |-> "system", fontSize |-> "medium", language |-> "en",
     customizationEnabled |-> TRUE, personality |-> "default",
     customInstructions |-> "", about |-> [nickname |-> "", occupation |-> ""],
     profile |-> [username |-> "You", email |-> "you@example.com"],
     avatarPreview |-> Null,
     notifications |-> [email |-> TRUE, system |-> TRUE, sound |-> FALSE, weekly |-> FALSE],
     apiKeys |-> <<"k_123">>]

\* what the form controls of one field can set it to
Choices(k) ==
    CASE k = "theme" -> {"system", "light", "dark"}
      [] k = "fontSize" -> {"medium", "large"}
      [] k = "language" -> {"en", "hi"}
      [] k = "customizationEnabled" -> BOOLEAN
      [] k = "personality" -> {"default", "formal"}
      [] k = "customInstructions" -> {"", "be brief"}
      [] k = "about" -> {[nickname |-> "", occupation |-> ""],
                         [nickname |-> "Sam", occupation |-> ""]}
      [] k = "profile" -> {[username |-> "You", email |-> "you@example.com"],
                           [username |-> "Sam", email |-> "you@example.com"]}
      [] k = "notifications" ->
            {[email |-> TRUE, system |-> TRUE, sound |-> FALSE, weekly |-> FALSE],
             [email |-> FALSE, system |-> TRUE, sound |-> FALSE, weekly |-> FALSE]}

\* fields set directly from a form control
FormKeys == PersistKeys \cup {"profile", "notifications"}

\* ids Math.random can produce for a new key
NewIds == {"k_new"}

(***************************************************************************)
(* localStorage item and JSON.                                             *)
(***************************************************************************)
EmptyObj == [k \in {} |-> TRUE]
NoItem == [kind |-> "null", obj |-> EmptyObj]
Malformed == [kind |-> "malformed", obj |-> EmptyObj]

\* JSON.stringify of an object
JSONstringify(o) == [kind |-> "json", obj |-> o]

\* JSON.parse(localStorage.getItem('app_settings') || '{}') throws
ParseThrows(it) == it.kind = "malformed"

\* JSON.parse(localStorage.getItem('app_settings') || '{}')
JSONparse(it) == IF it.kind = "json" THEN it.obj ELSE EmptyObj

\* { ...o, k1, k2, ... } with the values of s
Spread(o, ks, s) ==
    [k \in (DOMAIN o) \cup ks |-> IF k \in ks THEN s[k] ELSE o[k]]

\* contents of app_settings when the page is opened
SavedAll ==
    JSONstringify(
      [theme |-> "dark", fontSize |-> "large", language |-> "hi",
       customizationEnabled |-> FALSE, personality |-> "formal",
       customInstructions |-> "be brief",
       about |-> [nickname |-> "Sam", occupation |-> ""],
       accent |-> "blue"])

InitItems == {NoItem, Malformed, SavedAll}

(***************************************************************************)
(* saveChanges: what it writes.                                            *)
(***************************************************************************)
Areas == {"preferences", "personalization", "profile", "notifications",
          "integrations", "all"}

\* the notifications branch also spreads profile
AreaKeysWide(area) ==
    CASE area = "preferences" -> {"theme", "fontSize", "language"}
      [] area = "personalization" ->
            {"customizationEnabled", "personality", "customInstructions", "about"}
      [] area = "profile" -> {"profile", "avatarPreview"}
      [] area = "notifications" -> {"notifications", "profile"}
      [] area = "integrations" -> {"apiKeys"}
      [] OTHER -> {"theme", "fontSize", "language", "customizationEnabled",
                   "personality", "customInstructions", "about", "profile",
                   "notifications", "apiKeys"}

\* the keys each branch of saveChanges spreads over the stored object
AreaKeys(area) ==
    CASE area = "preferences" -> {"theme", "fontSize", "language"}
      [] area = "personalization" ->
            {"customizationEnabled", "personality", "customInstructions", "about"}
      [] area = "profile" -> {"profile", "avatarPreview"}
      [] area = "notifications" -> {"notifications"}
      [] area = "integrations" -> {"apiKeys"}
      [] OTHER -> {"theme", "fontSize", "language", "customizationEnabled",
                   "personality", "customInstructions", "about", "profile",
                   "notifications", "apiKeys"}

\* toSave of saveChanges: the stored object with the area's keys taken from
\* the state captured by the closure
ToSave(area, stored, snap) == Spread(stored, AreaKeys(area), snap)

(***************************************************************************)
(* The two effects.                                                        *)
(***************************************************************************)
\* customizationEnabled tested like the other fields, by truthiness
LoadUpdatesTruthy(saved) ==
    LET ks == {k \in PersistKeys \cap DOMAIN saved :
                 IF k = "about" THEN TRUE
                 ELSE IF k = "customizationEnabled" THEN saved[k]
                 ELSE saved[k] # ""}
    IN [k \in ks |-> saved[k]]

\* the setters the load effect calls, with their arguments
LoadUpdates(saved) ==
    LET ks == {k \in PersistKeys \cap DOMAIN saved :
                 IF k \in {"customizationEnabled", "about"} THEN TRUE
                 ELSE saved[k] # ""}
    IN [k \in ks |-> saved[k]]

\* the stored object is not spread into merged
MergedOnlyOwn(stored, s) == [k \in PersistKeys |-> s[k]]

\* merged of the apply/persist effect
Merged(stored, s) == Spread(stored, PersistKeys, s)

\* a re-render with the queued updates changes a dependency of the effect
\* (Object.is: a parsed object is never the object in state)
DepsChange(q, s) == \E k \in DOMAIN q : k = "about" \/ q[k] # s[k]

Mounted == phase \in {"loading", "idle"}

(***************************************************************************)
(* Real-time web search, as the setup guide describes it: smart_search     *)
(* looks in the Redis cache, then asks SerpAPI, then Google Custom Search, *)
(* scrapes the top URLs and caches the result.                             *)
(***************************************************************************)
\* Cache TTL: 1 hour (3600 seconds)
CacheTTL == 3600
\* Max scraped articles: 5 (top results)
MaxScraped == 5
\* Concurrent scraping: 3 articles at once
ScrapeConcurrency == 3

Queries == {"AI news", "ai news", "Weather"}

\* query.lower()
Lower(q) ==
    CASE q = "AI news" -> "ai news"
      [] q = "Weather" -> "weather"
      [] OTHER -> q

\* the cache key of a query hashes query.lower()
CacheKey(q) == Lower(q)

\* numbers of results a provider can answer with (at most 10)
ResultCounts == {2, 7}

NoResults == [source |-> "none", key |-> "", n |-> 0]
NoEntry == [k \in {} |-> NoResults]

\* GET ignores its expiry
CacheGetStale(c, k, t) == k \in DOMAIN c

\* Redis GET: the key is there until its TTL has run out
CacheGet(c, k, t) == k \in DOMAIN c /\ t < c[k].expires

\* Redis SETEX with the 1-hour TTL
CacheSet(c, k, v, t) ==
    [x \in DOMAIN c \cup {k} |->
        IF x = k THEN [val |-> v, stored |-> t, expires |-> t + CacheTTL]
        ELSE c[x]]

\* Redis DEL
CacheDelete(c, k) == [x \in DOMAIN c \ {k} |-> c[x]]

\* Google Custom Search is asked first
FirstProviderGoogle(cfg) ==
    IF cfg.google THEN "google" ELSE IF cfg.serpapi THEN "serpapi" ELSE "done"

\* the provider a search starts with: SerpAPI when its key is set
FirstProvider(cfg) ==
    IF cfg.serpapi THEN "serpapi" ELSE IF cfg.google THEN "google" ELSE "done"

\* the provider asked after provider p failed
NextProvider(cfg, p) ==
    IF p = "serpapi" /\ cfg.google THEN "google" ELSE "done"

\* all five selected URLs are scraped at once
PermitAlways(ts) == TRUE

\* the semaphore lets a scrape start
Permit(ts) ==
    Cardinality({i \in DOMAIN ts : ts[i] = "running"}) < ScrapeConcurrency

\* the number of URLs selected for scraping: the top 5
Selected(n) == IF n < MaxScraped THEN n ELSE MaxScraped

SettingsInit ==
    /\ phase = "unmounted"
    /\ st = Defaults
    /\ queued = EmptyObj
    /\ item \in InitItems
    /\ saving = FALSE
    /\ savedMsg = ""
    /\ toast = ""
    /\ pending = <<>>
    /\ toastTimers = <<>>
    /\ gen = 0
    /\ acts = 0
    /\ fresh = FALSE
    /\ lastChange = [k \in PrefKeys |-> NoChange]
    /\ atMount = NoItem
    /\ lastSave = "none"

SearchInit ==
    /\ now = 0
    /\ config \in [serpapi : BOOLEAN, google : BOOLEAN]
    /\ cache = NoEntry
    /\ sPhase = "idle"
    /\ query = ""
    /\ tried = <<>>
    /\ found = NoResults
    /\ result = NoResults
    /\ tasks = <<>>
    /\ searches = 0

(***************************************************************************)
(* Help component: collapsible panels and FAQ entries.                     *)
(***************************************************************************)
\* the keys of sections
PanelKeys == {"getting-started", "account-profile", "features-dashboard",
              "troubleshooting", "tips"}

\* the indices of faqs
FaqKeys == {0, 1, 2}

\* s[key] as a condition: a missing key is undefined, which is falsy
IsOpen(s, key) == key \in DOMAIN s /\ s[key]

\* the object holds the toggled key alone
ToggleAlone(s, key) == [x \in {key} |-> ~IsOpen(s, key)]

\* (s) => ({ ...s, [key]: !s[key] })
Toggle(s, key) ==
    [x \in DOMAIN s \cup {key} |-> IF x = key THEN ~IsOpen(s, key) ELSE s[x]]

\* useState(() => ({ 'getting-started': true })) and useState({})
HelpInit ==
    /\ openPanels = [k \in {"getting-started"} |-> TRUE]
    /\ openFaq = EmptyObj

\* Settings with the backend at rest
Init ==
    /\ SettingsInit
    /\ HelpInit
    /\ SearchInit
    /\ config = [serpapi |-> TRUE, google |-> TRUE]

\* the backend with Settings not rendered
InitSearch ==
    /\ SettingsInit
    /\ HelpInit
    /\ item = NoItem
    /\ SearchInit

(***************************************************************************)
(* Mount: first render with the useState defaults, then the load effect    *)
(* and the apply/persist effect, in this order.                            *)
(***************************************************************************)
Mount ==
    /\ phase = "unmounted"
    /\ acts < MaxActions
    /\ acts' = acts + 1
    /\ gen' = gen + 1
    /\ st' = Defaults
    /\ saving' = FALSE
    /\ savedMsg' = ""
    /\ toast' = ""
    /\ queued' = IF ParseThrows(item) THEN EmptyObj
                 ELSE LoadUpdates(JSONparse(item))
    /\ IF ParseThrows(item)
       THEN /\ phase' = "crashed"
            /\ item' = item
       ELSE /\ item' = JSONstringify(Merged(JSONparse(item), Defaults))
            /\ phase' = IF DepsChange(queued', Defaults) THEN "loading" ELSE "idle"
    /\ fresh' = TRUE
    /\ atMount' = item
    /\ UNCHANGED <<pending, toastTimers, lastChange, lastSave>>
    /\ UNCHANGED <<searchVars, helpVars>>

\* the re-render caused by the load effect's setters, and the apply/persist
\* effect it triggers
Rerender ==
    /\ phase = "loading"
    /\ st' = [k \in StateKeys |-> IF k \in DOMAIN queued THEN queued[k] ELSE st[k]]
    /\ queued' = EmptyObj
    /\ IF ParseThrows(item)
       THEN /\ phase' = "crashed"
            /\ item' = item
       ELSE /\ item' = JSONstringify(Merged(JSONparse(item), st'))
            /\ phase' = "idle"
    /\ UNCHANGED <<saving, savedMsg, toast, pending, toastTimers, gen, acts,
                   fresh, lastChange, atMount, lastSave>>
    /\ UNCHANGED <<searchVars, helpVars>>

\* the component is removed (navigation); timers already set keep running
Unmount ==
    /\ Mounted
    /\ phase' = "unmounted"
    /\ st' = Defaults
    /\ queued' = EmptyObj
    /\ saving' = FALSE
    /\ savedMsg' = ""
    /\ toast' = ""
    /\ fresh' = FALSE
    /\ UNCHANGED <<item, pending, toastTimers, gen, acts, lastChange, atMount, lastSave>>
    /\ UNCHANGED <<searchVars, helpVars>>

\* after an uncaught error React leaves an empty page; reloading it drops
\* every timer
Reload ==
    /\ phase = "crashed"
    /\ phase' = "unmounted"
    /\ st' = Defaults
    /\ queued' = EmptyObj
    /\ saving' = FALSE
    /\ savedMsg' = ""
    /\ toast' = ""
    /\ pending' = <<>>
    /\ toastTimers' = <<>>
    /\ fresh' = FALSE
    /\ UNCHANGED <<item, gen, acts, lastChange, atMount, lastSave>>
    /\ UNCHANGED <<searchVars, helpVars>>

(***************************************************************************)
(* The apply/persist effect after a render in which a dependency changed.  *)
(* An error it throws is uncaught: React removes the component tree.       *)
(***************************************************************************)
PersistEffect ==
    IF ParseThrows(item)
    THEN /\ phase' = "crashed"
         /\ item' = item
    ELSE /\ phase' = phase
         /\ item' = JSONstringify(Merged(JSONparse(item), st'))

EditFrame ==
    /\ acts < MaxActions
    /\ acts' = acts + 1
    /\ fresh' = FALSE
    /\ UNCHANGED <<queued, saving, savedMsg, toast, pending, toastTimers, gen>>

\* onChange of a select, input, textarea or Toggle bound to field k
SetField(k, v) ==
    /\ phase = "idle"
    /\ v # st[k]
    /\ st' = [st EXCEPT ![k] = v]
    /\ IF k \in PersistKeys
       THEN PersistEffect
       ELSE UNCHANGED <<phase, item>>
    /\ lastChange' = IF k \in PrefKeys THEN [lastChange EXCEPT ![k] = v]
                     ELSE lastChange
    /\ EditFrame
    /\ UNCHANGED <<atMount, lastSave>>
    /\ UNCHANGED <<searchVars, helpVars>>

\* handleAvatarUpload with a file chosen; url is its object URL
handleAvatarUpload(url) ==
    /\ phase = "idle"
    /\ st' = [st EXCEPT !["avatarPreview"] = url]
    /\ EditFrame
    /\ UNCHANGED <<phase, item, lastChange, atMount, lastSave>>
    /\ UNCHANGED <<searchVars, helpVars>>

generateApiKey(id) ==
    /\ phase = "idle"
    /\ st' = [st EXCEPT !["apiKeys"] = <<id>> \o @]
    /\ EditFrame
    /\ UNCHANGED <<phase, item, lastChange, atMount, lastSave>>
    /\ UNCHANGED <<searchVars, helpVars>>

revokeApiKey(id) ==
    /\ phase = "idle"
    /\ st' = [st EXCEPT !["apiKeys"] = SelectSeq(@, LAMBDA x : x # id)]
    /\ EditFrame
    /\ UNCHANGED <<phase, item, lastChange, atMount, lastSave>>
    /\ UNCHANGED <<searchVars, helpVars>>

(***************************************************************************)
(* saveChanges(area): the part before the await, and the part after the    *)
(* 500 ms timer. Timers of equal delay fire in the order they were set.    *)
(***************************************************************************)
SaveCall(area) ==
    /\ phase = "idle"
    /\ acts < MaxActions
    /\ acts' = acts + 1
    /\ saving' = TRUE
    /\ savedMsg' = ""
    /\ pending' = Append(pending, [area |-> area, snap |-> st, gen |-> gen])
    /\ fresh' = FALSE
    /\ UNCHANGED <<phase, st, queued, item, toast, toastTimers, gen, lastChange, atMount, lastSave>>
    /\ UNCHANGED <<searchVars, helpVars>>

\* the catch block removes the item
SaveWriteClears(c, it, storageThrows) ==
    IF storageThrows \/ ParseThrows(it) THEN NoItem
    ELSE JSONstringify(ToSave(c.area, JSONparse(it), c.snap))

\* the object the try block of saveChanges leaves in localStorage
SaveWrite(c, it, storageThrows) ==
    IF storageThrows \/ ParseThrows(it) THEN it
    ELSE JSONstringify(ToSave(c.area, JSONparse(it), c.snap))

\* the setters of a closure act on the instance that created it
Alive(c) == Mounted /\ c.gen = gen

SaveFinish(storageThrows) ==
    /\ pending # <<>>
    /\ LET c == Head(pending) IN
        /\ item' = SaveWrite(c, item, storageThrows)
        /\ saving' = IF Alive(c) THEN FALSE ELSE saving
        /\ toast' = IF Alive(c) THEN "Changes saved" ELSE toast
        /\ toastTimers' = Append(toastTimers, c.gen)
    /\ pending' = Tail(pending)
    /\ fresh' = FALSE
    /\ lastSave' = IF storageThrows \/ ParseThrows(item) THEN "threw" ELSE "ok"
    /\ UNCHANGED <<phase, st, queued, savedMsg, gen, acts, lastChange, atMount>>
    /\ UNCHANGED <<searchVars, helpVars>>

\* the timer fires without clearing the toast
ToastTimerKeeps ==
    /\ toastTimers # <<>>
    /\ toastTimers' = Tail(toastTimers)
    /\ UNCHANGED <<phase, st, queued, item, saving, savedMsg, toast, pending, gen,
                   acts, fresh, lastChange, atMount, lastSave>>
    /\ UNCHANGED <<searchVars, helpVars>>

\* setTimeout(() => setToast(''), 2200)
ToastTimer ==
    /\ toastTimers # <<>>
    /\ toast' = IF Mounted /\ Head(toastTimers) = gen THEN "" ELSE toast
    /\ toastTimers' = Tail(toastTimers)
    /\ UNCHANGED <<phase, st, queued, item, saving, savedMsg, pending, gen,
                   acts, fresh, lastChange, atMount, lastSave>>
    /\ UNCHANGED <<searchVars, helpVars>>

Next ==
    \/ Mount
    \/ Rerender
    \/ Unmount
    \/ Reload
    \/ \E k \in FormKeys : \E v \in Choices(k) : SetField(k, v)
    \/ handleAvatarUpload("blob:1")
    \/ \E id \in NewIds : generateApiKey(id)
    \/ \E i \in 1..Len(st["apiKeys"]) : revokeApiKey(st["apiKeys"][i])
    \/ \E a \in Areas : SaveCall(a)
    \/ \E t \in BOOLEAN : SaveFinish(t)
    \/ ToastTimer

Spec == Init /\ [][Next]_vars

(***************************************************************************)
(* smart_search(q)                                                         *)
(***************************************************************************)
SearchStart(q) ==
    /\ sPhase \in {"idle", "done"}
    /\ searches < MaxSearches
    /\ searches' = searches + 1
    /\ query' = q
    /\ tried' = <<>>
    /\ found' = NoResults
    /\ tasks' = <<>>
    /\ IF CacheGet(cache, CacheKey(q), now)
       THEN /\ result' = [cache[CacheKey(q)].val EXCEPT !.source = "cache"]
            /\ sPhase' = "done"
       ELSE /\ sPhase' = FirstProvider(config)
            /\ result' = NoResults
    /\ UNCHANGED <<now, config, cache>>
    /\ UNCHANGED <<settingsVars, helpVars>>

\* the provider being asked answers, fails, or runs into its timeout
ProviderReturns(outcome, n) ==
    /\ sPhase \in {"serpapi", "google"}
    /\ tried' = Append(tried, [provider |-> sPhase, outcome |-> outcome])
    /\ IF outcome = "ok"
       THEN /\ found' = [source |-> sPhase, key |-> CacheKey(query), n |-> n]
            /\ tasks' = [i \in 1..Selected(n) |-> "waiting"]
            /\ sPhase' = "scrape"
            /\ result' = result
       ELSE /\ found' = found
            /\ tasks' = tasks
            /\ sPhase' = NextProvider(config, sPhase)
            /\ result' = result
    /\ UNCHANGED <<now, config, cache, query, searches>>
    /\ UNCHANGED <<settingsVars, helpVars>>

\* the next selected URL gets a permit; tasks take permits in list order
ScrapeStart(i) ==
    /\ sPhase = "scrape"
    /\ i \in DOMAIN tasks
    /\ tasks[i] = "waiting"
    /\ \A j \in 1..(i - 1) : tasks[j] # "waiting"
    /\ Permit(tasks)
    /\ tasks' = [tasks EXCEPT ![i] = "running"]
    /\ UNCHANGED <<now, config, cache, sPhase, query, tried, found, result, searches>>
    /\ UNCHANGED <<settingsVars, helpVars>>

\* a scrape ends: the article was read ("ok") or 8 seconds passed ("timeout")
ScrapeEnd(i, how) ==
    /\ sPhase = "scrape"
    /\ i \in DOMAIN tasks
    /\ tasks[i] = "running"
    /\ tasks' = [tasks EXCEPT ![i] = how]
    /\ UNCHANGED <<now, config, cache, sPhase, query, tried, found, result, searches>>
    /\ UNCHANGED <<settingsVars, helpVars>>

\* every scrape has ended: the result is cached and returned
SearchComplete ==
    /\ sPhase = "scrape"
    /\ \A i \in DOMAIN tasks : tasks[i] \in {"ok", "timeout"}
    /\ cache' = CacheSet(cache, found.key, found, now)
    /\ result' = found
    /\ sPhase' = "done"
    /\ tasks' = <<>>
    /\ UNCHANGED <<now, config, query, tried, found, searches>>
    /\ UNCHANGED <<settingsVars, helpVars>>

\* client.delete(cache_key) for a query
ClearCache(q) ==
    /\ sPhase \in {"idle", "done"}
    /\ CacheKey(q) \in DOMAIN cache
    /\ cache' = CacheDelete(cache, CacheKey(q))
    /\ UNCHANGED <<now, config, sPhase, query, tried, found, result, tasks, searches>>
    /\ UNCHANGED <<settingsVars, helpVars>>

\* half an hour passes after a search has returned (the time before the
\* first search does not matter)
Tick ==
    /\ sPhase = "done"
    /\ now < MaxTicks * (CacheTTL \div 2)
    /\ now' = now + CacheTTL \div 2
    /\ UNCHANGED <<config, cache, sPhase, query, tried, found, result, tasks, searches>>
    /\ UNCHANGED <<settingsVars, helpVars>>

NextSearch ==
    \/ \E q \in Queries : SearchStart(q)
    \/ \E o \in {"ok", "error", "timeout"}, n \in ResultCounts : ProviderReturns(o, n)
    \/ \E i \in 1..MaxScraped : ScrapeStart(i)
    \/ \E i \in 1..MaxScraped, how \in {"ok", "timeout"} : ScrapeEnd(i, how)
    \/ SearchComplete
    \/ \E q \in Queries : ClearCache(q)
    \/ Tick

SearchSpec == InitSearch /\ [][NextSearch]_vars

\* timers that are due fire
(***************************************************************************)
(* Help: clicks on a panel header and on a FAQ question.                   *)
(***************************************************************************)
togglePanel(key) ==
    /\ openPanels' = Toggle(openPanels, key)
    /\ UNCHANGED openFaq
    /\ UNCHANGED <<settingsVars, searchVars>>

toggleFaq(i) ==
    /\ openFaq' = Toggle(openFaq, i)
    /\ UNCHANGED openPanels
    /\ UNCHANGED <<settingsVars, searchVars>>

\* the Help page with Settings not rendered and the backend at rest
InitHelp ==
    /\ SettingsInit
    /\ item = NoItem
    /\ SearchInit
    /\ config = [serpapi |-> TRUE, google |-> TRUE]
    /\ HelpInit

NextHelp ==
    \/ \E key \in PanelKeys : togglePanel(key)
    \/ \E i \in FaqKeys : toggleFaq(i)

HelpSpec == InitHelp /\ [][NextHelp]_vars

\* a toast timer that is due fires
FairToast == Spec /\ WF_vars(ToastTimer)

FairSpec == Spec /\ WF_vars(\E t \in BOOLEAN : SaveFinish(t)) /\ WF_vars(ToastTimer)

(***************************************************************************)
(* Properties of Settings.                                                 *)
(***************************************************************************)
HasKey(it, k) == it.kind = "json" /\ k \in DOMAIN it.obj

\* a step in which the apply/persist effect ran to its end
PersistRan ==
    /\ \/ \E k \in PersistKeys : \E v \in Choices(k) : SetField(k, v)
       \/ Mount
       \/ Rerender
    /\ phase' # "crashed"

\* C1: after the persist effect has run, app_settings holds the component's
\* current value of each of the seven persisted fields, and every other key
\* that was stored keeps its prior value.
C1_PersistHoldsCurrent ==
    [][PersistRan =>
        /\ item'.kind = "json"
        /\ DOMAIN item'.obj = DOMAIN JSONparse(item) \cup
             {"theme", "fontSize", "language", "customizationEnabled",
              "personality", "customInstructions", "about"}
        /\ \A k \in {"theme", "fontSize", "language", "customizationEnabled",
                     "personality", "customInstructions", "about"} :
              item'.obj[k] = st'[k]
        /\ \A k \in DOMAIN JSONparse(item) \
                     {"theme", "fontSize", "language", "customizationEnabled",
                      "personality", "customInstructions", "about"} :
              item'.obj[k] = JSONparse(item)[k]]_vars

\* a field was changed by the user, the effect stored it, and a key the
\* component does not own is still there
C1_Witness ==
    /\ phase = "idle"
    /\ lastChange["theme"] = "light"
    /\ HasKey(item, "theme") /\ item.obj["theme"] = "light"
    /\ HasKey(item, "accent") /\ item.obj["accent"] = "blue"

\* C2: last write wins. Once no saveChanges call is pending, the stored
\* theme, fontSize and language are the values of the user's latest change.
C2_LastWriteWins ==
    (pending = <<>> /\ phase \in {"idle", "unmounted"}) =>
        \A k \in PrefKeys :
            lastChange[k] # NoChange => (HasKey(item, k) /\ item.obj[k] = lastChange[k])

AllNonDefault(it) ==
    /\ it.kind = "json"
    /\ \A k \in PersistKeys : k \in DOMAIN it.obj /\ it.obj[k] # Defaults[k]

\* C3: when app_settings holds non-default values of the seven fields at
\* mount, then after the mount effects and their re-render the state of each
\* field is the value stored before the mount, and app_settings holds it.
C3_MountLoadsSaved ==
    (phase = "idle" /\ fresh /\ AllNonDefault(atMount)) =>
        \A k \in PersistKeys :
            /\ st[k] = atMount.obj[k]
            /\ HasKey(item, k) /\ item.obj[k] = atMount.obj[k]

C3_Witness ==
    /\ phase = "idle" /\ fresh /\ AllNonDefault(atMount)
    /\ st["theme"] = "dark" /\ st["customizationEnabled"] = FALSE

\* the keys of each named area
NamedAreaKeys(area) ==
    CASE area = "preferences" -> {"theme", "fontSize", "language"}
      [] area = "personalization" ->
            {"customizationEnabled", "personality", "customInstructions", "about"}
      [] area = "profile" -> {"profile", "avatarPreview"}
      [] area = "notifications" -> {"notifications"}
      [] area = "integrations" -> {"apiKeys"}

NamedAreas == {"preferences", "personalization", "profile", "notifications",
               "integrations"}

\* C4: saveChanges of a named area changes only that area's keys of the
\* stored object; every other stored key is unchanged.
C4_SaveOnlyArea ==
    [][(\E t \in BOOLEAN : SaveFinish(t)) /\ Head(pending).area \in NamedAreas =>
        \/ item' = item
        \/ /\ item'.kind = "json"
           /\ \A k \in (DOMAIN JSONparse(item) \cup DOMAIN item'.obj) \
                        NamedAreaKeys(Head(pending).area) :
                /\ k \in DOMAIN JSONparse(item)
                /\ k \in DOMAIN item'.obj
                /\ item'.obj[k] = JSONparse(item)[k]]_vars

\* a profile save was written next to keys of other areas
C4_Witness ==
    /\ HasKey(item, "avatarPreview")
    /\ HasKey(item, "accent") /\ item.obj["accent"] = "blue"
    /\ HasKey(item, "theme") /\ item.obj["theme"] = "dark"

\* every key a named area writes
AllAreaKeys == UNION {NamedAreaKeys(a) : a \in NamedAreas}

\* C8: saveChanges of any other area writes an object that holds the value
\* of every key a named area writes.
C8_FallbackSavesAll ==
    [][(SaveFinish(FALSE) /\ Head(pending).area \notin NamedAreas
          /\ ~ParseThrows(item)) =>
        \A k \in AllAreaKeys :
            HasKey(item', k) /\ item'.obj[k] = Head(pending).snap[k]]_vars

\* C9: what saveChanges stored of profile, notifications and apiKeys is the
\* component's state after the next mount.
C9_SavedIsRestored ==
    (phase = "idle" /\ fresh) =>
        \A k \in {"profile", "notifications", "apiKeys"} :
            HasKey(item, k) => st[k] = item.obj[k]

\* C10: saveChanges sets saving; after the timer it clears saving and shows
\* 'Changes saved', also when app_settings cannot be read, parsed or
\* written, and then the stored value is left as it was. Every call ends:
\* while a call is pending its timer step can be taken, whatever the state,
\* and each such step ends one call.
C10_SaveAlwaysCompletes ==
    /\ [][(\E a \in Areas : SaveCall(a)) => saving']_vars
    /\ [][\A t \in BOOLEAN : SaveFinish(t) =>
            /\ Alive(Head(pending)) => (~saving' /\ toast' = "Changes saved")
            /\ (t \/ ParseThrows(item)) => item' = item]_vars
    /\ [](pending # <<>> => ENABLED (\E t \in BOOLEAN : SaveFinish(t)))
    /\ [][(\E t \in BOOLEAN : SaveFinish(t)) => Len(pending') < Len(pending)]_vars

\* a call ended while localStorage threw
C10_Witness ==
    /\ phase = "idle" /\ pending = <<>> /\ toast = "Changes saved" /\ ~saving
    /\ lastSave = "threw"
    /\ st["profile"].username = "Sam" /\ ~HasKey(item, "profile")

(***************************************************************************)
(* Properties of the web search.                                           *)
(***************************************************************************)
InFlight == {i \in DOMAIN tasks : tasks[i] = "running"}
Waiting == {i \in DOMAIN tasks : tasks[i] = "waiting"}

ScrapeStep ==
    \/ \E i \in 1..MaxScraped : ScrapeStart(i)
    \/ \E i \in 1..MaxScraped, how \in {"ok", "timeout"} : ScrapeEnd(i, how)

\* C5: never more than 3 scrapes in flight and never more than 5 URLs
\* scraped; a scrape in flight can end by completing and by its timeout; the
\* scraping phase ends: while it lasts a step of it can be taken, and each
\* step brings the tasks nearer to their end.
C5_BoundedScraping ==
    /\ [](Cardinality(InFlight) <= 3 /\ Len(tasks) <= 5)
    /\ [](\A i \in InFlight :
            ENABLED ScrapeEnd(i, "ok") /\ ENABLED ScrapeEnd(i, "timeout"))
    /\ [](sPhase = "scrape" => ENABLED (ScrapeStep \/ SearchComplete))
    /\ [][ScrapeStep =>
            2 * Cardinality({i \in DOMAIN tasks' : tasks'[i] = "waiting"})
              + Cardinality({i \in DOMAIN tasks' : tasks'[i] = "running"})
            < 2 * Cardinality(Waiting) + Cardinality(InFlight)]_vars
    /\ [][SearchComplete => sPhase' = "done"]_vars

\* seven results: five URLs selected, three being scraped, two waiting
C5_Witness ==
    /\ sPhase = "scrape" /\ found.n = 7
    /\ Len(tasks) = 5
    /\ Cardinality(InFlight) = 3
    /\ Cardinality(Waiting) = 2

\* C6: SerpAPI is asked first; Google Custom Search is asked only when
\* SerpAPI has no key or has failed or timed out; when a provider succeeds
\* the search returns that provider's results.
C6_Failover ==
    /\ (tried # <<>> /\ config.serpapi) => tried[1].provider = "serpapi"
    /\ \A i \in 1..Len(tried) :
          tried[i].provider = "google" =>
             \/ ~config.serpapi
             \/ /\ i = 2
                /\ tried[1].provider = "serpapi"
                /\ tried[1].outcome \in {"error", "timeout"}
    /\ \A i \in 1..Len(tried) :
          (sPhase = "done" /\ tried[i].outcome = "ok") =>
             /\ result.source = tried[i].provider
             /\ result.key = Lower(query)
             /\ result = found

\* SerpAPI timed out, Google answered, Google's results were returned
C6_Witness ==
    /\ sPhase = "done"
    /\ tried = <<[provider |-> "serpapi", outcome |-> "timeout"],
                 [provider |-> "google", outcome |-> "ok"]>>
    /\ result.source = "google"

\* C7: a search of a query whose lower-cased form was cached less than an
\* hour ago is served from the cache; once the hour has passed, or the key
\* has been deleted, it is not served from the cache and goes to a provider.
C7_CacheOneHour ==
    [][\A q \in Queries : SearchStart(q) =>
        IF Lower(q) \in DOMAIN cache /\ now - cache[Lower(q)].stored < 3600
        THEN /\ sPhase' = "done"
             /\ result'.source = "cache"
             /\ result'.key = Lower(q)
             /\ result'.n = cache[Lower(q)].val.n
        ELSE /\ result'.source # "cache"
             /\ (config.serpapi \/ config.google) => sPhase' \in {"serpapi", "google"}
             /\ tried' = <<>>]_vars

\* half an hour after it was cached, the query in other letter case is
\* served from the cache
C7_Witness ==
    /\ sPhase = "done" /\ result.source = "cache"
    /\ query = "AI news"
    /\ now = 1800
    /\ cache["ai news"].stored = 0
    /\ searches = 2


\* C11: a malformed app_settings value is ignored at mount: neither mount
\* effect raises an exception (React would remove the component) and the
\* state keeps its defaults.
C11_MalformedIgnored ==
    (gen > 0 /\ ParseThrows(atMount) /\ phase # "unmounted") =>
        (phase \in {"idle", "loading"} /\ st = Defaults /\ queued = EmptyObj)

\* C12: saving is true in every state in which a saveChanges call of the
\* rendered component has started and not yet finished.
C12_SavingWhilePending ==
    (Mounted /\ \E i \in 1..Len(pending) : pending[i].gen = gen) => saving


\* C13: the toast reads 'Changes saved' only after a saveChanges call has
\* completed, and then a timer that clears it is still to fire; once the
\* timers have fired the toast is empty: no toast stays shown forever.
C13_ToastClears ==
    /\ [](toast \in {"", "Changes saved"})
    /\ [](toast = "Changes saved" =>
            /\ lastSave # "none"
            /\ Mounted
            /\ \E i \in 1..Len(toastTimers) : toastTimers[i] = gen)
    /\ (toast = "Changes saved") ~> (toast = "")

\* two calls have completed and the first call's timer has cleared the
\* toast of the second while the second timer is still to fire
C13_Witness ==
    /\ phase = "idle" /\ toast = "" /\ lastSave # "none"
    /\ pending = <<>> /\ Len(toastTimers) = 1 /\ toastTimers[1] = gen
    /\ acts = 3


(***************************************************************************)
(* Properties of Help.                                                     *)
(***************************************************************************)
\* what the page shows: the panels and the FAQ entries that are open
PanelView(s) == {k \in PanelKeys : IsOpen(s, k)}
FaqView(s) == {i \in FaqKeys : IsOpen(s, i)}

\* C14: at first only 'getting-started' is open and every FAQ is closed;
\* togglePanel(key) and toggleFaq(i) flip the named entry and leave every
\* other entry as it was; toggling an entry twice gives the previous view.
C14_ToggleExactlyOne ==
    /\ PanelView(openPanels) = {"getting-started"} /\ FaqView(openFaq) = {}
    /\ [][\A key \in PanelKeys : togglePanel(key) =>
            /\ IsOpen(openPanels', key) = ~IsOpen(openPanels, key)
            /\ \A k \in PanelKeys \ {key} :
                  IsOpen(openPanels', k) = IsOpen(openPanels, k)
            /\ FaqView(openFaq') = FaqView(openFaq)]_vars
    /\ [][\A i \in FaqKeys : toggleFaq(i) =>
            /\ IsOpen(openFaq', i) = ~IsOpen(openFaq, i)
            /\ \A j \in FaqKeys \ {i} : IsOpen(openFaq', j) = IsOpen(openFaq, j)
            /\ PanelView(openPanels') = PanelView(openPanels)]_vars
    /\ [](\A key \in PanelKeys :
            PanelView(Toggle(Toggle(openPanels, key), key)) = PanelView(openPanels))
    /\ [](\A i \in FaqKeys :
            FaqView(Toggle(Toggle(openFaq, i), i)) = FaqView(openFaq))

\* two panels are open at once, the first panel has been closed, one FAQ
\* entry is open and another was opened and closed again
C14_Witness ==
    /\ PanelView(openPanels) = {"troubleshooting", "tips"}
    /\ FaqView(openFaq) = {1}
    /\ 2 \in DOMAIN openFaq

====
